---- MODULE Spec2Model ----
(***************************************************************************)
(* The symbolic roadmap cycle of the MIA system: the orchestrator's        *)
(* prompt / generate / fetch / review / merge / save loop                  *)
(* (mia_symbolic_orchestrator.py), the generator's roadmap update          *)
(* (mia_symbolic_generator.py) and the dashboard's roadmap load            *)
(* (mia_symbolic_dashboard.py), all sharing the durable roadmap file.      *)
(*                                                                         *)
(* Texts are sequences of one-character strings, so that the regular       *)
(* expressions of the extractors are modelled by what they match.          *)
(***************************************************************************)
EXTENDS Integers, Sequences, FiniteSets, TLC

(***************************************************************************)
(* Characters and the character classes of Python's re module.             *)
(***************************************************************************)
UpperSeq ==
  << "A","B","C","D","E","F","G","H","I","J","K","L","M",
     "N","O","P","Q","R","S","T","U","V","W","X","Y","Z" >>

LowerSeq ==
  << "a","b","c","d","e","f","g","h","i","j","k","l","m",
     "n","o","p","q","r","s","t","u","v","w","x","y","z" >>

Upper == { UpperSeq[i] : i \in 1..26 }

Lower == { LowerSeq[i] : i \in 1..26 }

Letter == Upper \cup Lower

Digit == { "0","1","2","3","4","5","6","7","8","9" }

\* \w of re: letters, digits and the underscore
WordChar == Letter \cup Digit \cup { "_" }

\* \s of re (the ASCII whitespace the model's texts use)
Space == { " ", "\t", "\n", "\r" }

\* what str.strip() removes
StripChars == Space

\* re.IGNORECASE compares characters by their lower-case form
ToLower(c) ==
  IF c \in Upper THEN LowerSeq[CHOOSE i \in 1..26 : UpperSeq[i] = c] ELSE c

Range(s) == { s[i] : i \in 1..Len(s) }

Min(a, b) == IF a < b THEN a ELSE b

\* s[:n] of Python
Take(s, n) == SubSeq(s, 1, Min(n, Len(s)))

\* whether position i of t holds a word character (positions outside t do not)
IsWordAt(t, i) == i \in 1..Len(t) /\ t[i] \in WordChar

\* \b between positions i-1 and i of t
Boundary(t, i) == IsWordAt(t, i - 1) # IsWordAt(t, i)

\* the last position of the longest run of characters of class C that starts at
\* position i of t (i - 1 when the run is empty): a greedy C*
RunEnd(t, i, C) ==
  IF i \notin 1..Len(t) THEN i - 1
  ELSE LET S == { j \in i..Len(t) : t[j] \notin C }
       IN  IF S = {} THEN Len(t) ELSE (CHOOSE j \in S : \A k \in S : j <= k) - 1

\* whether the literal lit occurs in t at position i; ci: ignoring case
LitAt(t, i, lit, ci) ==
  /\ i >= 1
  /\ i + Len(lit) - 1 <= Len(t)
  /\ \A k \in 1..Len(lit) :
       IF ci THEN ToLower(t[i + k - 1]) = ToLower(lit[k])
             ELSE t[i + k - 1] = lit[k]

\* str.strip()
RECURSIVE LStrip(_)
LStrip(s) ==
  IF s # << >> /\ s[1] \in StripChars THEN LStrip(Tail(s)) ELSE s

RECURSIVE RStrip(_)
RStrip(s) ==
  IF s # << >> /\ s[Len(s)] \in StripChars
  THEN RStrip(SubSeq(s, 1, Len(s) - 1)) ELSE s

Strip(s) == RStrip(LStrip(s))

\* sep.join(parts) for a sequence of texts
RECURSIVE Join(_, _)
Join(sep, parts) ==
  IF parts = << >> THEN << >>
  ELSE IF Len(parts) = 1 THEN parts[1]
  ELSE parts[1] \o sep \o Join(sep, Tail(parts))

\* all orders in which the elements of the finite set S can be listed
RECURSIVE Orders(_)
Orders(S) ==
  IF S = {} THEN { << >> }
  ELSE UNION { { <<x>> \o o : o \in Orders(S \ {x}) } : x \in S }

(***************************************************************************)
(* estrai_domande_aperte and estrai_simboli_concetti: the regular          *)
(* expressions, as what they match at a position (ok, the position of the  *)
(* last character matched, the captured group) and re.findall's scan.      *)
(***************************************************************************)
NoMatch == [ok |-> FALSE, end |-> 0, grp |-> << >>]

Matched(e, g) == [ok |-> TRUE, end |-> e, grp |-> g]

Max(S) == CHOOSE x \in S : \A y \in S : y <= x

\* the last position of the longest run of characters outside C from position i
RunEndNot(t, i, C) ==
  IF i \notin 1..Len(t) THEN i - 1
  ELSE LET S == { j \in i..Len(t) : t[j] \in C }
       IN  IF S = {} THEN Len(t) ELSE (CHOOSE j \in S : \A k \in S : j <= k) - 1

\* len(d.strip()) > 10 in estrai_domande_aperte
MinQuestionLen == 10

\* len(s.strip()) > 2 in estrai_simboli_concetti
MinConceptLen == 2

\* the {2,} of the capitalised-identifier pattern
MinCapTail == 2

\* the headings (?:Open questions:|Domande aperte:|Questions:)
Headers ==
  << << "O","p","e","n"," ","q","u","e","s","t","i","o","n","s",":" >>,
     << "D","o","m","a","n","d","e"," ","a","p","e","r","t","e",":" >>,
     << "Q","u","e","s","t","i","o","n","s",":" >> >>

\* the vocabulary (?:problem|theory|...|supernova)
Keywords ==
  << << "p","r","o","b","l","e","m" >>,
     << "t","h","e","o","r","y" >>,
     << "m","o","d","e","l" >>,
     << "f","o","r","c","e" >>,
     << "g","r","a","v","i","t","y" >>,
     << "e","n","e","r","g","y" >>,
     << "w","a","v","e" >>,
     << "s","y","s","t","e","m" >>,
     << "p","h","e","n","o","m","e","n","a" >>,
     << "e","x","p","e","r","i","m","e","n","t" >>,
     << "f","r","a","m","e","w","o","r","k" >>,
     << "t","r","a","p" >>,
     << "c","l","o","u","d" >>,
     << "a","t","o","m" >>,
     << "q","u","a","n","t","u","m" >>,
     << "s","c","a","l","i","n","g" >>,
     << "e","r","r","o","r" >>,
     << "d","a","t","a" >>,
     << "s","i","m","u","l","a","t","i","o","n" >>,
     << "u","n","i","v","e","r","s","e" >>,
     << "d","i","m","e","n","s","i","o","n" >>,
     << "b","o","s","o","n" >>,
     << "r","e","l","a","t","i","v","i","t","y" >>,
     << "s","y","m","m","e","t","r","y" >>,
     << "i","n","f","l","a","t","i","o","n" >>,
     << "b","l","a","c","k"," ","h","o","l","e" >>,
     << "w","o","r","m","h","o","l","e" >>,
     << "n","e","u","t","r","o","n"," ","s","t","a","r" >>,
     << "s","u","p","e","r","n","o","v","a" >> >>

\* ([A-Z][^\n\r\.!?]*\?) at position p: a capital, then everything up to the
\* first of newline, return, '.', '!' and '?', which has to be the '?'
SentenceAt(t, p) ==
  IF t[p] \notin Upper THEN NoMatch
  ELSE LET q == RunEndNot(t, p + 1, { "\n", "\r", ".", "!", "?" }) + 1
       IN  IF q <= Len(t) /\ t[q] = "?" THEN Matched(q, SubSeq(t, p, q))
           ELSE NoMatch

\* \d+\.\s*(.+) at position p: digits, a dot, whitespace (given back one
\* character at a time when nothing follows it), then the rest of the line
NumberedAt(t, p) ==
  IF t[p] \notin Digit THEN NoMatch
  ELSE LET d == RunEnd(t, p, Digit)
       IN  IF ~(d + 1 <= Len(t) /\ t[d + 1] = ".") THEN NoMatch
           ELSE LET w == RunEnd(t, d + 2, Space)
                    J == { j \in (d + 2)..(w + 1) : j <= Len(t) /\ t[j] # "\n" }
                IN  IF J = {} THEN NoMatch
                    ELSE LET j == Max(J)
                             e == RunEndNot(t, j, { "\n" })
                         IN  Matched(e, SubSeq(t, j, e))

\* \b([A-Z][A-Za-z0-9_\-]{2,})\b at position p: the longest tail that ends at
\* a word boundary
CapAt(t, p) ==
  IF ~(Boundary(t, p) /\ t[p] \in Upper) THEN NoMatch
  ELSE LET r == RunEnd(t, p + 1, Letter \cup Digit \cup { "_", "-" })
           E == { e \in (p + MinCapTail)..r : Boundary(t, e + 1) }
       IN  IF E = {} THEN NoMatch ELSE Matched(Max(E), SubSeq(t, p, Max(E)))

\* \b([A-Za-z]+\s(?:keyword))\b at position p, ignoring case: a word, one
\* whitespace character and the first keyword that ends at a word boundary
PhraseAt(t, p) ==
  IF ~(Boundary(t, p) /\ t[p] \in Letter) THEN NoMatch
  ELSE LET q == RunEnd(t, p, Letter)
           K == { k \in 1..Len(Keywords) :
                    /\ LitAt(t, q + 2, Keywords[k], TRUE)
                    /\ Boundary(t, q + 2 + Len(Keywords[k])) }
       IN  IF ~(q + 1 <= Len(t) /\ t[q + 1] \in Space) \/ K = {} THEN NoMatch
           ELSE LET k == CHOOSE x \in K : \A y \in K : x <= y
                    e == q + 1 + Len(Keywords[k])
                IN  Matched(e, SubSeq(t, p, e))

\* \b([A-Za-z]+\d*)\^?\d*\b at position p: letters and digits (the group),
\* then an optional '^' and digits, ending at a word boundary
TokenAt(t, p) ==
  IF ~(Boundary(t, p) /\ t[p] \in Letter) THEN NoMatch
  ELSE LET a == RunEnd(t, p, Letter)
           b == RunEnd(t, a + 1, Digit)
           c == RunEnd(t, b + 2, Digit)
           g == SubSeq(t, p, b)
       IN  IF b + 1 <= Len(t) /\ t[b + 1] = "^"
           THEN IF c > b + 1 /\ ~IsWordAt(t, c + 1) THEN Matched(c, g)
                ELSE IF IsWordAt(t, b + 2) THEN Matched(b + 1, g)
                ELSE Matched(b, g)
           ELSE IF ~IsWordAt(t, b + 1) THEN Matched(b, g)
           ELSE NoMatch

MatchAt(kind, t, p) ==
  CASE kind = "sentence" -> SentenceAt(t, p)
    [] kind = "numbered" -> NumberedAt(t, p)
    [] kind = "cap"      -> CapAt(t, p)
    [] kind = "phrase"   -> PhraseAt(t, p)
    [] kind = "token"    -> TokenAt(t, p)

\* re.findall from position p on: the groups of the leftmost matches that do
\* not overlap, in text order
RECURSIVE FindAll(_, _, _)
FindAll(kind, t, p) ==
  LET P == { q \in p..Len(t) : MatchAt(kind, t, q).ok }
  IN  IF P = {} THEN << >>
      ELSE LET m == MatchAt(kind, t, CHOOSE q \in P : \A r \in P : q <= r)
           IN  << m.grp >> \o FindAll(kind, t, m.end + 1)

\* (?:heading)([\s\S]+?)(?:\n\n|$) at position p, ignoring case: group 1 is the
\* shortest non-empty text after the heading that a blank line or the end of
\* the text (or its final newline) follows
BlockAt(t, p) ==
  LET H == { h \in 1..Len(Headers) : LitAt(t, p, Headers[h], TRUE) }
  IN  IF H = {} THEN NoMatch
      ELSE LET s == p + Len(Headers[CHOOSE h \in H : TRUE])
               E == { e \in s..Len(t) :
                        \/ e = Len(t)
                        \/ e = Len(t) - 1 /\ t[Len(t)] = "\n"
                        \/ e + 2 <= Len(t) /\ t[e + 1] = "\n" /\ t[e + 2] = "\n" }
           IN  IF E = {} THEN NoMatch
               ELSE LET e == CHOOSE x \in E : \A y \in E : x <= y
                    IN  Matched(e, SubSeq(t, s, e))

\* re.search: the match at the leftmost position that has one
SearchBlock(t, p) ==
  LET P == { q \in p..Len(t) : BlockAt(t, q).ok }
  IN  IF P = {} THEN NoMatch
      ELSE BlockAt(t, CHOOSE q \in P : \A r \in P : q <= r)

\* the list domande before it is deduplicated: the numbered lines of the
\* labelled block, then every capitalised sentence ending in '?'
DomandeGrezze(peer_review) ==
  LET match == SearchBlock(peer_review, 1)
  IN  (IF match.ok THEN FindAll("numbered", match.grp, 1) ELSE << >>)
        \o FindAll("sentence", peer_review, 1)

\* [d.strip() for d in o if len(d.strip()) > 10]
RECURSIVE StripAndFilter(_)
StripAndFilter(o) ==
  IF o = << >> THEN << >>
  ELSE (IF Len(Strip(o[1])) > MinQuestionLen THEN << Strip(o[1]) >> ELSE << >>)
         \o StripAndFilter(Tail(o))

\* estrai_domande_aperte taking match.group(1) without the test of line 73:
\* with no labelled block it raises and returns nothing
estrai_domande_unguarded(peer_review) ==
  IF ~SearchBlock(peer_review, 1).ok THEN {}
  ELSE { StripAndFilter(o) : o \in Orders(Range(DomandeGrezze(peer_review))) }

\* estrai_domande_aperte: set(domande) is iterated in an order the build picks
\* (string hashing), so the result is one of these sequences
estrai_domande_aperte(peer_review) ==
  { StripAndFilter(o) : o \in Orders(Range(DomandeGrezze(peer_review))) }

\* estrai_simboli_concetti: the three pattern families united, trimmed and
\* filtered; the list it returns is only ever put into a set again, so the
\* result is kept as the set
estrai_simboli_concetti(testo) ==
  LET simboli == Range(FindAll("cap", testo, 1))
                   \cup Range(FindAll("phrase", testo, 1))
                   \cup Range(FindAll("token", testo, 1))
  IN  { Strip(s) : s \in { x \in simboli : Len(Strip(x)) > MinConceptLen } }

(***************************************************************************)
(* Values.  A Python str is a text; inside a JSON list it is tagged, since *)
(* the generator puts dicts where the orchestrator puts strings.  A Python *)
(* dict is a record whose DOMAIN is its keys.                              *)
(***************************************************************************)
JStr(s) == [kind |-> "str", val |-> s]

IsStr(x) == x.kind = "str"

\* [x.val for x in xs], defined when every element is a str
RECURSIVE Vals(_)
Vals(xs) == IF xs = << >> THEN << >> ELSE << xs[1].val >> \o Vals(Tail(xs))

RECURSIVE WrapAll(_)
WrapAll(ss) == IF ss = << >> THEN << >> ELSE << JStr(ss[1]) >> \o WrapAll(Tail(ss))

\* the outcome of a call: a value, or the exception it raises
Return(v) == [ok |-> TRUE, val |-> v, err |-> "none"]

Raise(e) == [ok |-> FALSE, val |-> << >>, err |-> e]

(***************************************************************************)
(* Constants of mia_symbolic_orchestrator.py.                              *)
(***************************************************************************)
CYCLES == 5

\* symbols[:5], symbols[:8] in generate_prompt; symbols[:3] in web_search
FallbackSymbols == 5

PromptSymbols == 8

SearchSymbols == 3

\* soup.get_text()[:2000] and testo[:500]
ScrapeLimit == 2000

FonteLimit == 500

\* time.sleep(1) after each fetch
PacingDelay == 1

FallbackLead ==
  << "A","p","p","r","o","f","o","n","d","i","s","c","i"," ","u","n","o"," ","d","e","i"," ","s","e","g","u","e","n","t","i"," ","c","o","n","c","e","t","t","i",":"," " >>

PromptLead ==
  << "R","i","s","p","o","n","d","i"," ","i","n"," ","m","o","d","o"," ","r","i","g","o","r","o","s","o"," ","e"," ","s","i","m","b","o","l","i","c","o"," ","a","l","l","a"," ","d","o","m","a","n","d","a",":"," ","'" >>

PromptMid ==
  << "'","."," ","U","s","a"," ","i"," ","s","i","m","b","o","l","i"," ","c","h","i","a","v","e",":"," " >>

PromptEnd == << "." >>

WikiBase ==
  << "h","t","t","p","s",":","/","/","e","n",".","w","i","k","i","p","e","d","i","a",".","o","r","g","/","w","i","k","i","/" >>

ArxivBase ==
  << "h","t","t","p","s",":","/","/","a","r","x","i","v",".","o","r","g","/","s","e","a","r","c","h","/","?","q","u","e","r","y","=" >>

ArxivTail ==
  << "&","s","e","a","r","c","h","t","y","p","e","=","a","l","l" >>

ErrLead ==
  << "[","E","r","r","o","r","e"," ","s","c","r","a","p","i","n","g"," " >>

PeerLead ==
  << "R","i","s","p","o","s","t","a"," ","s","i","m","b","o","l","i","c","a"," ","g","e","n","e","r","a","t","a",":","\n" >>

PeerMid ==
  << "\n","\n","F","o","n","t","i"," ","w","e","b"," ","c","o","r","r","e","l","a","t","e",":","\n" >>

PeerTail ==
  << "\n","\n","F","a","i"," ","u","n","a"," ","p","e","e","r"," ","r","e","v","i","e","w"," ","s","i","m","b","o","l","i","c","a",","," ","s","e","g","n","a","l","a"," ","p","u","n","t","i"," ","d","e","b","o","l","i",","," ","s","u","g","g","e","r","i","s","c","i"," ","m","i","g","l","i","o","r","a","m","e","n","t","i"," ","e"," ","n","u","o","v","e"," ","d","o","m","a","n","d","e"," ","d","i"," ","r","i","c","e","r","c","a","."," ","E","l","e","n","c","a"," ","c","h","i","a","r","a","m","e","n","t","e"," ","l","e"," ","d","o","m","a","n","d","e"," ","a","p","e","r","t","e"," ","o"," ","i"," ","d","u","b","b","i"," ","c","h","e"," ","r","i","m","a","n","g","o","n","o","." >>

\* how an f-string shows a dict (its repr, not modelled character by character)
DictRepr == << "{", ".", ".", ".", "}" >>

\* str(x) of a list element inside an f-string
StrOf(x) == IF IsStr(x) THEN x.val ELSE DictRepr

\* sep.join(xs): TypeError unless every item is a str
JoinStr(sep, xs) ==
  IF \A i \in 1..Len(xs) : IsStr(xs[i]) THEN Return(Join(sep, Vals(xs)))
  ELSE Raise("TypeError")

\* generate_prompt with the key symbols cut like the fallback's (symbols[:5])
generate_prompt_five(symbols, questions) ==
  LET few == JoinStr(<< ",", " " >>, Take(symbols, FallbackSymbols))
  IN  IF ~few.ok THEN Raise("TypeError")
      ELSE Return(PromptLead
                    \o (IF questions # << >> THEN StrOf(questions[1])
                        ELSE FallbackLead \o few.val)
                    \o PromptMid \o few.val \o PromptEnd)

\* generate_prompt(symbols, questions)
generate_prompt(symbols, questions) ==
  LET few  == JoinStr(<< ",", " " >>, Take(symbols, FallbackSymbols))
      keys == JoinStr(<< ",", " " >>, Take(symbols, PromptSymbols))
  IN  IF questions # << >>
      THEN IF keys.ok
           THEN Return(PromptLead \o StrOf(questions[1]) \o PromptMid \o keys.val
                         \o PromptEnd)
           ELSE Raise("TypeError")
      ELSE IF few.ok /\ keys.ok
           THEN Return(PromptLead \o FallbackLead \o few.val \o PromptMid \o keys.val
                         \o PromptEnd)
           ELSE Raise("TypeError")

\* ask_ollama on the reply the service gives: requests.post raises when the
\* service is unreachable, response.json() when the body is not JSON, and
\* ["response"] when the key is missing; the status code is not looked at
ask_ollama(reply) ==
  IF ~reply.reachable THEN Raise("ConnectionError")
  ELSE IF reply.body.form # "json" THEN Raise("JSONDecodeError")
  ELSE IF "response" \notin DOMAIN reply.body.obj THEN Raise("KeyError")
  ELSE Return(reply.body.obj.response)

\* s.replace(" ", "_")
RECURSIVE Underscored(_)
Underscored(s) ==
  IF s = << >> THEN << >>
  ELSE << IF s[1] = " " THEN "_" ELSE s[1] >> \o Underscored(Tail(s))

RECURSIVE WikiLinks(_)
WikiLinks(ss) ==
  IF ss = << >> THEN << >>
  ELSE << WikiBase \o Underscored(ss[1]) >> \o WikiLinks(Tail(ss))

\* web_search without the [:3]: a link for every symbol
web_search_all(symbols, question) ==
  IF \E i \in 1..Len(symbols) : ~IsStr(symbols[i]) THEN Raise("AttributeError")
  ELSE Return(WikiLinks(Vals(symbols))
                \o << ArxivBase \o Join(<< "+" >>, Vals(symbols)) \o ArxivTail >>)

\* web_search(symbols, question): AttributeError (no replace) or TypeError
\* (join) when one of the first three symbols is not a str
web_search(symbols, question) ==
  LET first == Take(symbols, SearchSymbols)
  IN  IF \E i \in 1..Len(first) : ~IsStr(first[i]) THEN Raise("AttributeError")
      ELSE Return(WikiLinks(Vals(first))
                    \o << ArxivBase \o Join(<< "+" >>, Vals(first)) \o ArxivTail >>)

\* BeautifulSoup(html).get_text(): the text outside the tags (entities,
\* comments and script bodies are not modelled)
RECURSIVE GetText(_, _)
GetText(html, inTag) ==
  IF html = << >> THEN << >>
  ELSE IF inTag THEN GetText(Tail(html), html[1] # ">")
  ELSE IF html[1] = "<" THEN GetText(Tail(html), TRUE)
  ELSE << html[1] >> \o GetText(Tail(html), FALSE)

\* scrape_url with the exception swallowed and nothing said about it
scrape_url_silent(url, net) ==
  IF net.ok THEN Take(GetText(net.html, FALSE), ScrapeLimit) ELSE << >>

\* scrape_url(url) on what the network does (net.ok: the page arrives;
\* otherwise requests raises net.exc): never raises
scrape_url(url, net) ==
  IF net.ok THEN Take(GetText(net.html, FALSE), ScrapeLimit)
  ELSE ErrLead \o url \o << ":", " " >> \o net.exc \o << "]" >>

\* the peer_prompt of ciclo_symbolic
PeerPrompt(risposta, fonti) ==
  PeerLead \o risposta \o PeerMid \o Join(<< >>, fonti) \o PeerTail

\* the merge with the new questions added after the pending ones
MergeOutcomesKeeping(roadmap, simboli_risposta, simboli_review, domande_aperte) ==
  IF \E i \in 1..Len(roadmap.focus_symbols) : ~IsStr(roadmap.focus_symbols[i])
  THEN { Raise("TypeError") }
  ELSE { Return([roadmap EXCEPT !.focus_symbols = o,
                                !.open_questions = @ \o WrapAll(domande_aperte)]) :
           o \in Orders(Range(roadmap.focus_symbols)
                          \cup { JStr(s) : s \in simboli_risposta \cup simboli_review }) }

\* the merge with the new symbols appended and no set() to drop the repeats
MergeOutcomesAppending(roadmap, simboli_risposta, simboli_review, domande_aperte) ==
  IF \E i \in 1..Len(roadmap.focus_symbols) : ~IsStr(roadmap.focus_symbols[i])
  THEN { Raise("TypeError") }
  ELSE { Return([roadmap EXCEPT !.focus_symbols = @ \o o,
                                !.open_questions = WrapAll(domande_aperte)]) :
           o \in Orders({ JStr(s) : s \in simboli_risposta \cup simboli_review }) }

\* the merge with the symbols replaced by the newly extracted ones, as the
\* questions are
MergeOutcomesReplacing(roadmap, simboli_risposta, simboli_review, domande_aperte) ==
  IF \E i \in 1..Len(roadmap.focus_symbols) : ~IsStr(roadmap.focus_symbols[i])
  THEN { Raise("TypeError") }
  ELSE { Return([roadmap EXCEPT !.focus_symbols = o,
                                !.open_questions = WrapAll(domande_aperte)]) :
           o \in Orders({ JStr(s) : s \in simboli_risposta \cup simboli_review }) }

\* the merge that also brings the metadata's counters up to date
MergeOutcomesCounting(roadmap, simboli_risposta, simboli_review, domande_aperte) ==
  IF \E i \in 1..Len(roadmap.focus_symbols) : ~IsStr(roadmap.focus_symbols[i])
  THEN { Raise("TypeError") }
  ELSE { Return([k \in DOMAIN roadmap |->
                   IF k = "focus_symbols" THEN o
                   ELSE IF k = "open_questions" THEN WrapAll(domande_aperte)
                   ELSE IF k = "metadata"
                   THEN [roadmap[k] EXCEPT !.total_symbols = Len(o),
                                           !.total_questions = Len(domande_aperte)]
                   ELSE roadmap[k]]) :
           o \in Orders(Range(roadmap.focus_symbols)
                          \cup { JStr(s) : s \in simboli_risposta \cup simboli_review }) }

\* set(roadmap["focus_symbols"] + simboli_risposta + simboli_review)
MergedSymbols(roadmap, simboli_risposta, simboli_review) ==
  Range(roadmap.focus_symbols)
    \cup { JStr(s) : s \in simboli_risposta \cup simboli_review }

\* the two assignments that end ciclo_symbolic, for each order in which
\* list(set(...)) may list the symbols: set() raises TypeError on a dict
MergeOutcomes(roadmap, simboli_risposta, simboli_review, domande_aperte) ==
  IF \E i \in 1..Len(roadmap.focus_symbols) : ~IsStr(roadmap.focus_symbols[i])
  THEN { Raise("TypeError") }
  ELSE { Return([roadmap EXCEPT !.focus_symbols = o,
                                !.open_questions = WrapAll(domande_aperte)]) :
           o \in Orders(MergedSymbols(roadmap, simboli_risposta, simboli_review)) }

(***************************************************************************)
(* What the outside world may answer: texts of the generation service,     *)
(* its replies, and what a page fetch does.                                *)
(***************************************************************************)
RispostaA ==
  << "A","b","c"," ","i","s"," ","u","p","." >>

ReviewNone ==
  << "I","t"," ","i","s"," ","o","k","." >>

ReviewList ==
  << "Q","u","e","s","t","i","o","n","s",":","\n","1","."," ","I","s"," ","A","b","c"," ","u","p"," ","t","o"," ","5","?"," ","\n" >>

ReviewTwo ==
  << "I","s"," ","i","t"," ","s","o"," ","o","r"," ","\"","n","o","\"","?"," ","I","s"," ","i","t"," ","u","p"," ","t","o"," ","m","e","?" >>

RisposteTexts == { RispostaA }

ReviewTexts == { ReviewNone, ReviewList, ReviewTwo }

PageHtml ==
  << "<","p",">","A","b","c"," ","p","a","g","e","<","/","p",">" >>

TimeoutMsg ==
  << "t","i","m","e","d"," ","o","u","t" >>

\* the status codes the service is tried with: one success, one failure
StatusSample == { 200, 500 }

NoReply == [reachable |-> FALSE, status |-> 0, body |-> [form |-> "unsent"]]

ServiceDown == [reachable |-> FALSE, status |-> 0, body |-> [form |-> "none"]]

HtmlError == [reachable |-> TRUE, status |-> 500, body |-> [form |-> "html"]]

JsonError ==
  [reachable |-> TRUE, status |-> 500,
   body |-> [form |-> "json", obj |-> [error |-> "model not found"]]]

NoField ==
  [reachable |-> TRUE, status |-> 200,
   body |-> [form |-> "json", obj |-> [done |-> TRUE]]]

Answer(status, text) ==
  [reachable |-> TRUE, status |-> status,
   body |-> [form |-> "json", obj |-> [response |-> text]]]

Replies(texts) ==
  { ServiceDown, HtmlError, JsonError, NoField }
    \cup { Answer(s, t) : s \in StatusSample, t \in texts }

NetOutcomes ==
  { [ok |-> TRUE, html |-> PageHtml, exc |-> << >>],
    [ok |-> FALSE, html |-> << >>, exc |-> TimeoutMsg] }

(***************************************************************************)
(* Roadmaps and the durable roadmap file.                                  *)
(***************************************************************************)
\* datetime.now().isoformat(): the clock is not modelled
Timestamp == "now"

Null == [kind |-> "null"]

\* the roadmap the orchestrator starts from when the file does not exist
FreshOrchRoadmap ==
  [focus_symbols |-> << >>, open_questions |-> << >>,
   operational_recommendations |-> << >>]

\* the roadmap of create_initial_roadmap and of the generator's load_roadmap
DefaultRoadmap ==
  [metadata |-> [created |-> Timestamp, last_updated |-> Timestamp,
                 version |-> "2.0", total_symbols |-> 0, total_questions |-> 0],
   focus_symbols |-> << >>, open_questions |-> << >>,
   operational_recommendations |-> << >>, symbolic_connections |-> << >>,
   web_sources |-> << >>, peer_reviews |-> << >>]

\* the file: absent; empty (just opened with mode "w"); json (data is the
\* complete document of a json.dump); torn (bytes that do not parse)
Absent == [st |-> "absent", data |-> Null]

Truncated == [st |-> "empty", data |-> Null]

Torn == [st |-> "torn", data |-> Null]

\* json.dump(..., ensure_ascii=False) of a str: the characters between
\* quotes, with quote, backslash and newline escaped
RECURSIVE Escape(_)
Escape(s) ==
  IF s = << >> THEN << >>
  ELSE (IF s[1] \in { "\"", "\\" } THEN << "\\", s[1] >>
        ELSE IF s[1] = "\n" THEN << "\\", "n" >>
        ELSE << s[1] >>) \o Escape(Tail(s))

\* json.load of a string literal's characters
RECURSIVE Unescape(_)
Unescape(s) ==
  IF s = << >> THEN << >>
  ELSE IF s[1] = "\\" /\ Len(s) >= 2
       THEN << IF s[2] = "n" THEN "\n" ELSE s[2] >> \o Unescape(Tail(Tail(s)))
       ELSE << s[1] >> \o Unescape(Tail(s))

\* a number, or a str kept whole in the model, as the literal json.dump writes
\* for it and json.load reads back
Literal(x) == [j |-> "literal", lit |-> x]

\* json.dump of an element of one of the roadmap's lists: a str, None or a dict
DumpItem(x) ==
  IF x.kind = "str" THEN [j |-> "string", chars |-> Escape(x.val)]
  ELSE IF x.kind = "null" THEN [j |-> "null"]
  ELSE [j |-> "object",
        members |-> [k \in DOMAIN x \ { "kind" } |-> Literal(x[k])]]

\* json.load of an element: a JSON string gives a str, null gives None, an
\* object gives a dict
LoadItem(d) ==
  IF d.j = "string" THEN JStr(Unescape(d.chars))
  ELSE IF d.j = "null" THEN Null
  ELSE [k \in DOMAIN d.members \cup { "kind" } |->
          IF k = "kind" THEN "dict" ELSE d.members[k].lit]

\* json.dump of the roadmap with every key left out whose list is empty
json_dump_sparse(roadmap) ==
  [j |-> "object",
   members |->
     [k \in { x \in DOMAIN roadmap : x = "metadata" \/ roadmap[x] # << >> } |->
        IF k = "metadata"
        THEN [j |-> "object",
              members |-> [m \in DOMAIN roadmap[k] |-> Literal(roadmap[k][m])]]
        ELSE [j |-> "array",
              items |-> [i \in 1..Len(roadmap[k]) |-> DumpItem(roadmap[k][i])]]]]

\* json.dump(roadmap, f, indent=2, ensure_ascii=False): the document written
\* (metadata is a dict of numbers and strs, every other key a list)
json_dump(roadmap) ==
  [j |-> "object",
   members |->
     [k \in DOMAIN roadmap |->
        IF k = "metadata"
        THEN [j |-> "object",
              members |-> [m \in DOMAIN roadmap[k] |-> Literal(roadmap[k][m])]]
        ELSE [j |-> "array",
              items |-> [i \in 1..Len(roadmap[k]) |-> DumpItem(roadmap[k][i])]]]]

\* json.load(f) on a document that parses
json_load(doc) ==
  [k \in DOMAIN doc.members |->
     LET v == doc.members[k]
     IN  IF v.j = "object" THEN [m \in DOMAIN v.members |-> v.members[m].lit]
         ELSE [i \in 1..Len(v.items) |-> LoadItem(v.items[i])]]

Dumped(roadmap) == [st |-> "json", data |-> json_dump(roadmap)]

\* closing a file opened with mode "w" writes the buffered json.dump at the
\* writer's offset 0.  Onto the still empty file that is the whole document;
\* onto bytes another writer put there meanwhile it is the document, or the
\* document followed by the rest of the longer one (which does not parse)
CloseOutcomes(f, roadmap) ==
  IF f.st = "empty" THEN { Dumped(roadmap) } ELSE { Dumped(roadmap), Torn }

\* the extractors on the texts the service may answer, computed once
ConcettiDi == [t \in RisposteTexts \cup ReviewTexts |-> estrai_simboli_concetti(t)]

DomandeDi == [t \in ReviewTexts |-> estrai_domande_aperte(t)]

\* file: the roadmap file; orch, gen: the two processes; call: a single call
\* of one of the pure functions, looked at on its own (its arguments and,
\* once it has returned, its result); launcher: the launcher script
\* (start_mia_system.py), which starts the two processes; log: the MIAL
\* execution log file (mial_execution_log.json)
VARIABLES file, orch, gen, call, launcher, log

vars == << file, orch, gen, call, launcher, log >>

\* no call is looked at
NoCall == [fn |-> "none"]

\* the launcher is not used: the scripts are started by hand
LauncherOff == [pc |-> "off"]

\* the execution log is not looked at
NoLog == [st |-> "unused"]

(***************************************************************************)
(* The orchestrator process (mia_symbolic_orchestrator.py).                *)
(***************************************************************************)
\* the locals of ciclo_symbolic, each kept while the code still reads it;
\* reply is what the last ask_ollama call received, kept for one step
\* fetched lists the requests.get calls of the fetch loop (the link asked for
\* and the seconds slept before it); slept is the time spent in time.sleep
OrchLocals ==
  [prompt |-> << >>, reply |-> NoReply, risposta |-> << >>, simboli_risposta |-> {},
   links |-> << >>, fonti |-> << >>, fetched |-> << >>, slept |-> 0,
   review |-> << >>, simboli_review |-> {}, domande_aperte |-> << >>]

\* posts counts the requests.post calls the process has made
OrchInit ==
  [pc |-> "start", err |-> "none", roadmap |-> Null, ciclo |-> 0, posts |-> 0,
   loc |-> OrchLocals]

\* an uncaught exception ends the process
Crash(o, e) == [o EXCEPT !.pc = "crashed", !.err = e]

\* lines 15-23: the module-level load
OrchLoad ==
  /\ orch.pc = "start"
  /\ orch' = IF file.st = "absent"
             THEN [orch EXCEPT !.pc = "loop", !.roadmap = FreshOrchRoadmap]
             ELSE IF file.st = "json"
             THEN [orch EXCEPT !.pc = "loop", !.roadmap = json_load(file.data)]
             ELSE Crash(orch, "JSONDecodeError")
  /\ UNCHANGED << file, gen, call, launcher, log >>

\* lines 122-123 and 81-84: the loop enters a cycle, builds the prompt and
\* sends it
OrchPrompt ==
  /\ orch.pc = "loop"
  /\ orch.ciclo < CYCLES
  /\ LET r == orch.roadmap
         p == IF { "focus_symbols", "open_questions" } \subseteq DOMAIN r
              THEN generate_prompt(r.focus_symbols, r.open_questions)
              ELSE Raise("KeyError")
     IN  orch' = IF p.ok
                 THEN [orch EXCEPT !.pc = "generating", !.loc.prompt = p.val]
                 ELSE Crash(orch, p.err)
  /\ UNCHANGED << file, gen, call, launcher, log >>

\* the generation step with the reply's concepts put into the roadmap at once
OrchGenerateMerging ==
  /\ orch.pc = "generating"
  /\ \E reply \in Replies(RisposteTexts) :
       LET a == ask_ollama(reply)
           r == orch.roadmap
           w == web_search(r.focus_symbols,
                           IF r.open_questions # << >> THEN r.open_questions[1]
                           ELSE JStr(<< >>))
           o == [orch EXCEPT !.loc.reply = reply, !.posts = @ + 1]
       IN  IF ~a.ok THEN orch' = Crash(o, a.err)
           ELSE IF ~w.ok THEN orch' = Crash(o, w.err)
           ELSE \E m \in MergeOutcomes(r, ConcettiDi[a.val], {},
                                       Vals(r.open_questions)) :
                  orch' = [o EXCEPT !.pc = "fetching",
                                    !.roadmap = m.val,
                                    !.loc.risposta = a.val,
                                    !.loc.simboli_risposta = ConcettiDi[a.val],
                                    !.loc.links = w.val,
                                    !.loc.fonti = << >>]
  /\ UNCHANGED << file, gen, call, launcher, log >>

\* lines 84-90: the generation reply, its concepts, the links to fetch
OrchGenerate ==
  /\ orch.pc = "generating"
  /\ \E reply \in Replies(RisposteTexts) :
       LET a == ask_ollama(reply)
           r == orch.roadmap
           w == web_search(r.focus_symbols,
                           IF r.open_questions # << >> THEN r.open_questions[1]
                           ELSE JStr(<< >>))
           o == [orch EXCEPT !.loc.reply = reply, !.posts = @ + 1]
       IN  orch' = IF ~a.ok THEN Crash(o, a.err)
                   ELSE IF ~w.ok THEN Crash(o, w.err)
                   ELSE [o EXCEPT !.pc = "fetching",
                                  !.loc.risposta = a.val,
                                  !.loc.simboli_risposta = ConcettiDi[a.val],
                                  !.loc.links = w.val,
                                  !.loc.fonti = << >>]
  /\ UNCHANGED << file, gen, call, launcher, log >>

\* the fetch loop without its time.sleep(1)
OrchFetchNoSleep ==
  /\ orch.pc = "fetching"
  /\ Len(orch.loc.fonti) < Len(orch.loc.links)
  /\ \E net \in NetOutcomes :
       LET url   == orch.loc.links[Len(orch.loc.fonti) + 1]
           testo == scrape_url(url, net)
       IN  orch' = [orch EXCEPT !.loc.reply = NoReply,
                                !.loc.fonti = Append(@, Take(testo, FonteLimit)),
                                !.loc.fetched =
                                  Append(@, [url |-> url, at |-> orch.loc.slept])]
  /\ UNCHANGED << file, gen, call, launcher, log >>

\* lines 91-94: one pass of the fetch loop: the next link is fetched, its
\* text kept, and the loop sleeps PacingDelay seconds
OrchFetch ==
  /\ orch.pc = "fetching"
  /\ Len(orch.loc.fonti) < Len(orch.loc.links)
  /\ \E net \in NetOutcomes :
       LET url   == orch.loc.links[Len(orch.loc.fonti) + 1]
           testo == scrape_url(url, net)
       IN  orch' = [orch EXCEPT !.loc.reply = NoReply,
                                !.loc.fonti = Append(@, Take(testo, FonteLimit)),
                                !.loc.fetched =
                                  Append(@, [url |-> url, at |-> orch.loc.slept]),
                                !.loc.slept = @ + PacingDelay]
  /\ UNCHANGED << file, gen, call, launcher, log >>

\* the review asked with links still to fetch (the request moved into the
\* for loop)
OrchAskReviewEarly ==
  /\ orch.pc = "fetching"
  /\ PeerPrompt(orch.loc.risposta, orch.loc.fonti) # << >>
  /\ orch' = [orch EXCEPT !.pc = "reviewing", !.loc.reply = NoReply,
                          !.loc.risposta = << >>, !.loc.links = << >>,
                          !.loc.fonti = << >>, !.loc.fetched = << >>,
                          !.loc.slept = 0]
  /\ UNCHANGED << file, gen, call, launcher, log >>

\* lines 96-101: every link was fetched; the review prompt is sent
OrchAskReview ==
  /\ orch.pc = "fetching"
  /\ Len(orch.loc.fonti) = Len(orch.loc.links)
  /\ PeerPrompt(orch.loc.risposta, orch.loc.fonti) # << >>
  /\ orch' = [orch EXCEPT !.pc = "reviewing", !.loc.reply = NoReply,
                          !.loc.risposta = << >>, !.loc.links = << >>,
                          !.loc.fonti = << >>, !.loc.fetched = << >>,
                          !.loc.slept = 0]
  /\ UNCHANGED << file, gen, call, launcher, log >>

\* the review asked again when the request failed
OrchReviewRetrying ==
  /\ orch.pc = "reviewing"
  /\ \E reply \in Replies(ReviewTexts) :
       LET a == ask_ollama(reply)
           o == [orch EXCEPT !.loc.reply = reply, !.posts = @ + 1]
       IN  IF ~a.ok THEN orch' = o
           ELSE \E d \in DomandeDi[a.val] :
                  orch' = [o EXCEPT !.pc = "merging",
                                    !.loc.review = a.val,
                                    !.loc.simboli_review = ConcettiDi[a.val],
                                    !.loc.domande_aperte = d]
  /\ UNCHANGED << file, gen, call, launcher, log >>

\* lines 101-111: the review reply, its concepts and its open questions
OrchReview ==
  /\ orch.pc = "reviewing"
  /\ \E reply \in Replies(ReviewTexts) :
       LET a == ask_ollama(reply)
           o == [orch EXCEPT !.loc.reply = reply, !.posts = @ + 1]
       IN  IF ~a.ok THEN orch' = Crash(o, a.err)
           ELSE \E d \in DomandeDi[a.val] :
                  orch' = [o EXCEPT !.pc = "merging",
                                    !.loc.review = a.val,
                                    !.loc.simboli_review = ConcettiDi[a.val],
                                    !.loc.domande_aperte = d]
  /\ UNCHANGED << file, gen, call, launcher, log >>

\* lines 112-115: the merge; ciclo_symbolic returns and its locals are gone
OrchMerge ==
  /\ orch.pc = "merging"
  /\ \E m \in MergeOutcomes(orch.roadmap, orch.loc.simboli_risposta,
                            orch.loc.simboli_review, orch.loc.domande_aperte) :
       orch' = IF m.ok
               THEN [orch EXCEPT !.pc = "merged", !.roadmap = m.val,
                                 !.loc = OrchLocals]
               ELSE Crash(orch, m.err)
  /\ UNCHANGED << file, gen, call, launcher, log >>

\* the early stop tested before the save instead of after it
OrchOpenBreakFirst ==
  /\ orch.pc = "merged"
  /\ IF orch.roadmap.open_questions = << >>
     THEN /\ orch' = [orch EXCEPT !.pc = "done"]
          /\ file' = file
     ELSE /\ orch' = [orch EXCEPT !.pc = "writing"]
          /\ file' = Truncated
  /\ UNCHANGED << gen, call, launcher, log >>

\* lines 124-125: open(ROADMAP_FILE, "w") truncates the file
OrchOpen ==
  /\ orch.pc = "merged"
  /\ file' = Truncated
  /\ orch' = [orch EXCEPT !.pc = "writing"]
  /\ UNCHANGED << gen, call, launcher, log >>

\* line 126: json.dump and the end of the with block
OrchClose ==
  /\ orch.pc = "writing"
  /\ file' \in CloseOutcomes(file, orch.roadmap)
  /\ orch' = [orch EXCEPT !.pc = "saved"]
  /\ UNCHANGED << gen, call, launcher, log >>

\* the loop without the break of lines 127-128
OrchNextNoBreak ==
  /\ orch.pc = "saved"
  /\ orch' = IF orch.ciclo + 1 < CYCLES
             THEN [orch EXCEPT !.pc = "loop", !.ciclo = @ + 1]
             ELSE [orch EXCEPT !.pc = "done", !.ciclo = @ + 1]
  /\ UNCHANGED << file, gen, call, launcher, log >>

\* the loop without its end: after the last cycle the script is back at the
\* head of the loop, where no cycle is left to start, and never leaves it
OrchNextNoEnd ==
  /\ orch.pc = "saved"
  /\ orch' = IF orch.roadmap.open_questions = << >>
             THEN [orch EXCEPT !.pc = "done"]
             ELSE [orch EXCEPT !.pc = "loop", !.ciclo = @ + 1]
  /\ UNCHANGED << file, gen, call, launcher, log >>

\* lines 127-129 and the end of the for loop
OrchNext ==
  /\ orch.pc = "saved"
  /\ orch' = IF orch.roadmap.open_questions = << >>
             THEN [orch EXCEPT !.pc = "done"]
             ELSE IF orch.ciclo + 1 < CYCLES
             THEN [orch EXCEPT !.pc = "loop", !.ciclo = @ + 1]
             ELSE [orch EXCEPT !.pc = "done", !.ciclo = @ + 1]
  /\ UNCHANGED << file, gen, call, launcher, log >>

OrchStep ==
  \/ OrchLoad \/ OrchPrompt \/ OrchGenerate \/ OrchFetch \/ OrchAskReview
  \/ OrchReview \/ OrchMerge \/ OrchOpen \/ OrchClose \/ OrchNext

(***************************************************************************)
(* The generator process (mia_symbolic_generator.py).  What it draws at    *)
(* random is an input; time.time() is the number of the run.               *)
(***************************************************************************)
MaxGenRuns == 1

\* the domains random.choice may pick (a sample of the thirteen)
DomainSample == { "topology" }

\* random.randint(2, 3)
MinNewSymbols == 2

MaxNewSymbols == 3

\* the draws the model tries: how many generic symbols, and their domains
DomainDraws ==
  UNION { [1..n -> DomainSample] : n \in { MinNewSymbols } }

FusionNames == << "Q_plasma", "Lawson_criterion", "triple_product", "Tokamak_field" >>

FusionDomains == << "nuclear_fusion", "nuclear_fusion", "nuclear_fusion", "tokamak" >>

\* generate_new_symbols: the generic symbols first, then the four fusion ones
generate_new_symbols(run, doms) ==
  [i \in 1..Len(doms) |->
     [kind |-> "dict", id |-> << "SYM", run, i - 1 >>,
      name |-> << "Symbol", doms[i], i - 1 >>, domain |-> doms[i]]]
    \o [k \in 1..Len(FusionNames) |->
          [kind |-> "dict", id |-> << "SYM_FUSION", run, k >>,
           name |-> << FusionNames[k] >>, domain |-> FusionDomains[k]]]

QuestionTemplates ==
  << "Quali sono i limiti teorici del Q_plasma nella fusione nucleare?",
     "Come si puo ottimizzare il triple_product in un tokamak?",
     "Quali materiali sono piu adatti per il rivestimento di un reattore a fusione?",
     "Come si confrontano tokamak e stellarator in termini di stabilita del plasma?",
     "Quali sono le principali sfide ingegneristiche per la fusione nucleare commerciale?",
     "Come si puo migliorare il confinamento magnetico del plasma?",
     "Quali sono le implicazioni della fusione nucleare per la produzione energetica globale?",
     "Come si puo ridurre la produzione di neutroni ad alta energia nei reattori a fusione?" >>

\* random.sample(question_templates, 4): the draws the model tries
QuestionsPerRun == 4

QuestionDraws == { << 1, 2, 3, 4 >> }

\* generate_open_questions (object has no generate_open_questions to add)
generate_open_questions(run, draw) ==
  [i \in 1..QuestionsPerRun |->
     [kind |-> "dict", id |-> << "Q_FUSION", run, i - 1 >>,
      text |-> QuestionTemplates[draw[i]], status |-> "open"]]

SourceUrls ==
  << "https://en.wikipedia.org/wiki/Nuclear_fusion", "https://www.iter.org/",
     "https://www.nature.com/subjects/nuclear-fusion",
     "https://www.iaea.org/topics/nuclear-fusion" >>

\* random.sample(sources, 3): the draws the model tries
SourcesPerRun == 3

SourceDraws == { << 1, 2, 3 >> }

scrape_web_sources(draw) ==
  [i \in 1..SourcesPerRun |-> [kind |-> "dict", url |-> SourceUrls[draw[i]]]]

\* run_peer_review: the simulated review, or None after an exception
AutoReview ==
  [kind |-> "dict", reviewer |-> "AutoReviewer", timestamp |-> Timestamp,
   assessment |-> "Symbolic generation appears consistent"]

PeerReviewOutcomes == { AutoReview, Null }

\* d[k] = v on a dict
SetKey(d, k, v) == [x \in DOMAIN d \cup { k } |-> IF x = k THEN v ELSE d[x]]

Recommendations(nsym, nq) ==
  << [kind |-> "dict", type |-> "symbol_connection", count |-> nsym],
     [kind |-> "dict", type |-> "question_resolution", count |-> nq],
     [kind |-> "dict", type |-> "source_validation", count |-> 0] >>

\* lines 230-262 of update_roadmap on the loaded roadmap r: the roadmap to
\* save, or the KeyError of the first key that is missing (what was extended
\* before it stays extended in memory)
UpdateRoadmap(r, ns, nq, src, pr) ==
  IF "focus_symbols" \notin DOMAIN r THEN [ok |-> FALSE, val |-> r]
  ELSE LET r1 == [r EXCEPT !.focus_symbols = @ \o ns]
  IN   IF "open_questions" \notin DOMAIN r1 THEN [ok |-> FALSE, val |-> r1]
  ELSE LET r2 == [r1 EXCEPT !.open_questions = @ \o nq]
  IN   IF "web_sources" \notin DOMAIN r2 THEN [ok |-> FALSE, val |-> r2]
  ELSE LET r3 == [r2 EXCEPT !.web_sources = @ \o src]
  IN   IF pr # Null /\ "peer_reviews" \notin DOMAIN r3 THEN [ok |-> FALSE, val |-> r3]
  ELSE LET r4 == IF pr # Null THEN [r3 EXCEPT !.peer_reviews = Append(@, pr)] ELSE r3
  IN   IF "metadata" \notin DOMAIN r4 THEN [ok |-> FALSE, val |-> r4]
  ELSE LET m  == SetKey(SetKey(SetKey(r4.metadata, "last_updated", Timestamp),
                               "total_symbols", Len(r4.focus_symbols)),
                        "total_questions", Len(r4.open_questions))
           r5 == [r4 EXCEPT !.metadata = m]
       IN  [ok |-> TRUE,
            val |-> SetKey(r5, "operational_recommendations",
                           Recommendations(Len(ns), Len(nq)))]

GenInit == [pc |-> "idle", err |-> "none", runs |-> 0, roadmap |-> Null]

\* lines 22-46: load_roadmap, the default roadmap when the file is absent or
\* does not parse
GenLoad ==
  /\ gen.pc \in { "idle", "crashed" }
  /\ gen.runs < MaxGenRuns
  /\ gen' = [pc |-> "loaded", err |-> "none", runs |-> gen.runs + 1,
             roadmap |-> IF file.st = "json" THEN json_load(file.data)
                         ELSE DefaultRoadmap]
  /\ UNCHANGED << file, orch, call, launcher, log >>

\* lines 216-265: update_roadmap up to open(self.roadmap_file, 'w')
GenUpdate ==
  /\ gen.pc = "loaded"
  /\ \E doms \in DomainDraws, qd \in QuestionDraws, sd \in SourceDraws,
        pr \in PeerReviewOutcomes :
       LET u == UpdateRoadmap(gen.roadmap, generate_new_symbols(gen.runs, doms),
                              generate_open_questions(gen.runs, qd),
                              scrape_web_sources(sd), pr)
       IN  IF u.ok
           THEN /\ gen' = [gen EXCEPT !.pc = "writing", !.roadmap = u.val]
                /\ file' = Truncated
           ELSE /\ gen' = [gen EXCEPT !.pc = "crashed", !.err = "KeyError",
                                      !.roadmap = u.val]
                /\ file' = file
  /\ UNCHANGED << orch, call, launcher, log >>

\* line 266: json.dump and the end of the with block
GenClose ==
  /\ gen.pc = "writing"
  /\ file' \in CloseOutcomes(file, gen.roadmap)
  /\ gen' = [gen EXCEPT !.pc = "idle"]
  /\ UNCHANGED << orch, call, launcher, log >>

GenStep == GenLoad \/ GenUpdate \/ GenClose

(***************************************************************************)
(* The dashboard's load_roadmap (mia_symbolic_dashboard.py), run at every  *)
(* refresh, on the file as it is at that moment: "absent" (no file, None   *)
(* is returned), "roadmap" (the parsed file is returned) or "error"        *)
(* (json.load raised, st.error is shown and None returned).  The dashboard *)
(* changes nothing, so it is this function of the file and no process.     *)
(***************************************************************************)
\* lines 34-42
load_roadmap(f) ==
  IF f.st = "absent" THEN "absent"
  ELSE IF f.st = "json" THEN "roadmap"
  ELSE "error"

(***************************************************************************)
(* The system: the processes share nothing but the file.                   *)
(***************************************************************************)
\* the file before any process starts: absent, the launcher's initial
\* roadmap, or bytes that do not parse (what an interrupted save leaves)
Init ==
  /\ file \in { Absent, Dumped(DefaultRoadmap), Torn }
  /\ orch = OrchInit
  /\ gen = GenInit
  /\ call = NoCall
  /\ launcher = LauncherOff
  /\ log = NoLog

Next == OrchStep \/ GenStep

Spec == Init /\ [][Next]_vars

\* the cycle loop as the only writer of the file
SpecCycle == Init /\ [][OrchStep]_vars

\* the same, with the script running on: each statement is executed once the
\* one before it has returned (every external call returns or raises)
SpecCycleFair == SpecCycle /\ WF_vars(OrchStep)

(***************************************************************************)
(* Properties of the cycle loop.                                           *)
(***************************************************************************)
\* C1: the merge that ends a cycle leaves in open_questions exactly the
\* sequence estrai_domande_aperte drew from this cycle's review, in its
\* order; a question that was pending before and is not in that sequence is
\* gone.
C1_OpenQuestionsReplaced ==
  [][ (orch.pc = "merging" /\ orch'.pc = "merged") =>
        LET E == orch.loc.domande_aperte
        IN  /\ E \in DomandeDi[orch.loc.review]
            /\ orch'.roadmap.open_questions = WrapAll(E)
            /\ \A q \in Range(orch.roadmap.open_questions) :
                 q \notin Range(WrapAll(E))
                   => q \notin Range(orch'.roadmap.open_questions) ]_vars

\* a later cycle has merged: questions were pending when it began and its
\* review gave none, so none is left
C1_Witness ==
  /\ orch.pc = "merged"
  /\ orch.ciclo >= 1
  /\ orch.roadmap.open_questions = << >>

\* C2: once a cycle is saved with no open question extracted, the loop ends
\* there: no further cycle starts, whatever the number of cycles run so far,
\* and an ended loop runs nothing more.
C2_EarlyStop ==
  [][ /\ (orch.pc = "saved" /\ orch.roadmap.open_questions = << >> /\ orch' # orch)
         => (orch'.pc = "done" /\ orch'.ciclo = orch.ciclo)
      /\ (orch.pc = "done" => orch' = orch) ]_vars

\* the loop ended after its second cycle, fewer than CYCLES
C2_Witness ==
  /\ orch.pc = "done"
  /\ orch.ciclo = 1
  /\ orch.ciclo + 1 < CYCLES
  /\ orch.roadmap.open_questions = << >>

\* C3: merging the same extraction a second time changes neither the set of
\* focus symbols nor their number.
C3_MergeIdempotentOnSymbols ==
  orch.pc = "merging" =>
    \A m1 \in MergeOutcomes(orch.roadmap, orch.loc.simboli_risposta,
                            orch.loc.simboli_review, orch.loc.domande_aperte) :
      m1.ok =>
        \A m2 \in MergeOutcomes(m1.val, orch.loc.simboli_risposta,
                                orch.loc.simboli_review, orch.loc.domande_aperte) :
          /\ m2.ok
          /\ Range(m2.val.focus_symbols) = Range(m1.val.focus_symbols)
          /\ Len(m2.val.focus_symbols) = Len(m1.val.focus_symbols)

\* a merge onto a roadmap that already has symbols, of an extraction that
\* repeats one of them and brings a new one
C3_Witness ==
  /\ orch.pc = "merging"
  /\ \E i \in 1..Len(orch.roadmap.focus_symbols) :
       orch.roadmap.focus_symbols[i].val \in orch.loc.simboli_review
  /\ \E s \in orch.loc.simboli_review :
       JStr(s) \notin Range(orch.roadmap.focus_symbols)

\* C4: whenever the file holds a saved roadmap, whoever saved it, the
\* metadata's total_symbols is the number of focus symbols and its
\* total_questions the number of open questions.
C4_MetadataCounts ==
  file.st = "json" =>
    LET saved == json_load(file.data)
    IN  /\ "metadata" \in DOMAIN saved
        /\ saved.metadata.total_symbols = Len(saved.focus_symbols)
        /\ saved.metadata.total_questions = Len(saved.open_questions)

\* the steps of a cycle that come before its merge
BeforeMerge == { "loop", "generating", "fetching", "reviewing", "merging" }

\* C5: every step of a cycle other than its completed merge, a failing step
\* included, leaves the in-memory roadmap and the file as they were; so the
\* roadmap of a process that failed in a cycle is the one the file holds (or
\* the fresh one, when there is no file yet), never a partly merged one.
C5_FailureLeavesRoadmap ==
  /\ []((orch.pc = "crashed" /\ orch.roadmap # Null) =>
          \/ file = Dumped(orch.roadmap)
          \/ (file = Absent /\ orch.roadmap = FreshOrchRoadmap))
  /\ [][ (orch.pc \in BeforeMerge /\ orch' # orch /\ orch'.pc # "merged")
           => (orch'.roadmap = orch.roadmap /\ file' = file) ]_vars

\* a later cycle failed at its review, after the reply's concepts were
\* extracted, with symbols and questions in the roadmap
C5_Witness ==
  /\ orch.pc = "crashed"
  /\ orch.ciclo >= 1
  /\ orch.loc.simboli_risposta # {}
  /\ orch.roadmap.focus_symbols # << >>
  /\ orch.roadmap.open_questions # << >>

\* C6: at every cycle boundary (the cycle is saved, the next one is about to
\* start, or the loop has ended) the file holds exactly the in-memory
\* roadmap.
C6_SavedAtCycleBoundary ==
  (orch.pc \in { "saved", "done" } \/ (orch.pc = "loop" /\ orch.ciclo >= 1))
    => file = Dumped(orch.roadmap)

\* the next cycle is about to start on a roadmap the last cycle changed
C6_Witness ==
  /\ orch.pc = "loop"
  /\ orch.ciclo >= 1
  /\ orch.roadmap.focus_symbols # << >>
  /\ orch.roadmap.open_questions # << >>
  /\ file = Dumped(orch.roadmap)

\* what the specification calls a failed generation call
GenerationFailed(reply) ==
  \/ ~reply.reachable
  \/ reply.status \div 100 # 2
  \/ reply.body.form # "json"
  \/ "response" \notin DOMAIN reply.body.obj

\* C7: a reply of the generation service that is a failure (unreachable, a
\* non-success status, or no response field) ends the cycle with an error.
C7_FailedReplyAborts ==
  (orch.loc.reply # NoReply /\ GenerationFailed(orch.loc.reply))
    => orch.pc = "crashed"

\* C8: fetching a link never raises: a failed fetch gives a non-empty text
\* that begins with the error marker and names the link; every step of the
\* fetch loop stays in the loop or goes on to the review, and once every link
\* was tried the review is asked, however many fetches failed.
C8_FetchNeverRaises ==
  /\ [](orch.pc = "fetching" =>
          /\ \A i \in 1..Len(orch.loc.links) :
               \A net \in NetOutcomes :
                 LET testo == scrape_url(orch.loc.links[i], net)
                 IN  ~net.ok => /\ testo # << >>
                                /\ LitAt(testo, 1, ErrLead \o orch.loc.links[i], FALSE)
          /\ \A i \in 1..Len(orch.loc.fonti) :
               \E net \in NetOutcomes :
                 orch.loc.fonti[i]
                   = Take(scrape_url(orch.loc.links[i], net), FonteLimit)
          /\ (Len(orch.loc.fonti) = Len(orch.loc.links) => ENABLED OrchAskReview))
  /\ [][ (orch.pc = "fetching" /\ orch' # orch)
           => /\ orch'.pc \in { "fetching", "reviewing" }
              /\ orch'.err = "none" ]_vars

\* every link was tried, there are several, and every fetch failed
C8_Witness ==
  /\ orch.pc = "fetching"
  /\ Len(orch.loc.links) >= 2
  /\ Len(orch.loc.fonti) = Len(orch.loc.links)
  /\ \A i \in 1..Len(orch.loc.fonti) : LitAt(orch.loc.fonti[i], 1, ErrLead, FALSE)

\* C9: a reader that loads the file while a save is in progress finds a whole
\* roadmap (the one before the save or the one being saved), never an empty
\* or cut-off file.
C9_ReaderSeesWholeFile ==
  (orch.pc = "writing" \/ gen.pc = "writing") => load_roadmap(file) = "roadmap"

\* C10: loading never fails: once a process is past its load it holds a
\* roadmap, whatever state the file was in.
C10_LoadNeverFails ==
  /\ orch.pc # "start" => orch.roadmap # Null
  /\ gen.runs > 0 => gen.roadmap # Null

\* the cycle a process is in has started: ciclo is its number, from 0
InCycle == { "generating", "fetching", "reviewing", "merging", "merged",
             "writing", "saved" }

\* C11: the cycles that run are numbered below CYCLES, so at most CYCLES of
\* them run whatever questions they extract, and the script always comes to
\* its end: the loop is done, or a call raised and ended the process.
C11_BoundedAndTerminates ==
  /\ [](orch.pc \in InCycle => orch.ciclo < CYCLES)
  /\ [](orch.ciclo <= CYCLES)
  /\ <>(orch.pc \in { "done", "crashed" })

\* the loop ended because all CYCLES cycles ran, questions still pending
C11_Witness ==
  /\ orch.pc = "done"
  /\ orch.ciclo = CYCLES
  /\ orch.roadmap.open_questions # << >>

\* the order of the steps of a cycle: the position before and after each
\* step that does not raise
CycleOrder ==
  { << "loop", "generating" >>, << "generating", "fetching" >>,
    << "fetching", "fetching" >>, << "fetching", "reviewing" >>,
    << "reviewing", "merging" >>, << "merging", "merged" >> }

\* C12: a cycle goes through prompting, generating, fetching, reviewing and
\* merging in that order, skipping none and returning to none: links are
\* fetched only once the generation reply is there, the review is asked only
\* when every link was fetched, and the merge uses the review reply received.
C12_CycleOrder ==
  /\ [][ (orch.pc \in BeforeMerge /\ orch' # orch /\ orch'.pc # "crashed")
           => /\ << orch.pc, orch'.pc >> \in CycleOrder
              /\ orch'.ciclo = orch.ciclo
              /\ (orch'.pc = "reviewing"
                    => Len(orch.loc.fonti) = Len(orch.loc.links)) ]_vars
  /\ [](orch.pc = "fetching" =>
          /\ orch.loc.risposta \in RisposteTexts
          /\ Len(orch.loc.fonti) <= Len(orch.loc.links))
  /\ [](orch.pc = "merging" =>
          /\ orch.loc.reply # NoReply
          /\ ask_ollama(orch.loc.reply) = Return(orch.loc.review))

\* a later cycle is about to merge, its links fetched and its review received
C12_Witness ==
  /\ orch.pc = "merging"
  /\ orch.ciclo >= 1
  /\ orch.loc.simboli_risposta # {}
  /\ orch.loc.review \in ReviewTexts

\* C13: with the cycle loop the only writer and no review recorded before
\* it started, the roadmap of a cycle that has merged holds one peer-review
\* record for each cycle completed so far.
C13_ReviewAppended ==
  orch.pc \in { "merged", "writing", "saved" } =>
    /\ "peer_reviews" \in DOMAIN orch.roadmap
    /\ Len(orch.roadmap.peer_reviews) = orch.ciclo + 1

\* C14: the focus symbols of every saved roadmap, whoever saved it, are
\* strings and no two of them are equal.
C14_SymbolsAreStringSet ==
  file.st = "json" =>
    LET fs == json_load(file.data).focus_symbols
    IN  /\ \A i \in 1..Len(fs) : IsStr(fs[i])
        /\ \A i, j \in 1..Len(fs) : fs[i] = fs[j] => i = j

\* the top-level keys of the durable roadmap file
RoadmapKeys ==
  { "metadata", "focus_symbols", "open_questions", "operational_recommendations",
    "symbolic_connections", "web_sources", "peer_reviews" }

\* C15: every saved roadmap, whoever saved it, has all seven top-level keys.
C15_SevenKeys ==
  file.st = "json" => RoadmapKeys \subseteq DOMAIN json_load(file.data)

Fragments ==
  << << "Q","u","e","s","t","i","o","n","s",":" >>,
     << "\n","1","."," " >>,
     << "I","s"," ","A","b","c"," ","u","p"," ","t","o"," ","5","?" >>,
     << "\n","\n" >>,
     << "d","a","r","k"," ","e","n","e","r","g","y"," " >>,
     << "1","2"," ","+"," ","3","." >> >>

\* a text is at most this many pieces
MaxFragments == 3

RECURSIVE TextsOf(_)
TextsOf(n) ==
  IF n = 0 THEN { << >> }
  ELSE TextsOf(n - 1)
         \cup { t \o Fragments[f] : t \in TextsOf(n - 1), f \in 1..Len(Fragments) }

ExtractCalls ==
  { [fn |-> "estrai", done |-> FALSE, text |-> t, concetti |-> {}, domande |-> << >>] :
      t \in TextsOf(MaxFragments) \cup RisposteTexts \cup ReviewTexts }

\* estrai_simboli_concetti(text) and estrai_domande_aperte(text) return
CallExtract ==
  /\ call.fn = "estrai"
  /\ ~call.done
  /\ \E d \in estrai_domande_aperte(call.text) :
       call' = [call EXCEPT !.done = TRUE,
                            !.concetti = estrai_simboli_concetti(call.text),
                            !.domande = d]
  /\ UNCHANGED << file, orch, gen, launcher, log >>

\* the texts and the roadmap of the end-to-end scenario
ScenarioSymbols == << << "Q","_","p","l","a","s","m","a" >>, << "L","a","w","s","o","n","_","c","r","i","t","e","r","i","o","n" >> >>

ScenarioQuestion == << "H","o","w"," ","d","o","e","s"," ","Q","_","p","l","a","s","m","a"," ","s","c","a","l","e","?" >>

ScenarioRisposta ==
  << "T","h","e"," ","T","r","i","p","l","e","_","p","r","o","d","u","c","t"," ","a","n","d"," ","L","a","w","s","o","n","_","c","r","i","t","e","r","i","o","n"," ","i","n","t","e","r","a","c","t",".",".","." >>

ScenarioReview ==
  << "O","p","e","n"," ","q","u","e","s","t","i","o","n","s",":","\n","1","."," ","W","h","a","t"," ","l","i","m","i","t","s"," ","T","r","i","p","l","e","_","p","r","o","d","u","c","t","?","\n","2","."," ","C","a","n"," ","Q","_","p","l","a","s","m","a"," ","e","x","c","e","e","d"," ","5","?" >>

ScenarioRoadmap ==
  [focus_symbols |-> WrapAll(ScenarioSymbols),
   open_questions |-> WrapAll(<< ScenarioQuestion >>),
   operational_recommendations |-> << >>]

\* what each of the scenario's three page fetches does
ScenarioNets == [1..(SearchSymbols) -> NetOutcomes]

CycleCalls ==
  { [fn |-> "ciclo", done |-> FALSE, roadmap |-> ScenarioRoadmap,
     risposta |-> ScenarioRisposta, nets |-> nets, review |-> ScenarioReview,
     fonti |-> << >>, symbols |-> {}, open_questions |-> << >>] :
      nets \in ScenarioNets }

\* lines 89-94 of ciclo_symbolic: the texts fetched from the links, each
\* cut to FonteLimit characters, nets[i] being what the i-th fetch does
RECURSIVE Fonti(_, _)
Fonti(links, nets) ==
  IF links = << >> THEN << >>
  ELSE << Take(scrape_url(links[1], nets[1]), FonteLimit) >>
         \o Fonti(Tail(links), Tail(nets))

\* ciclo_symbolic(roadmap, ciclo_num) returns, the service having answered
\* risposta and review and the fetches having done nets: the texts fetched
\* (they go into the review prompt and nowhere else), the symbols of the
\* returned roadmap, whose list is one of the orders of this set, and its
\* open questions
CallCycle ==
  /\ call.fn = "ciclo"
  /\ ~call.done
  /\ generate_prompt(call.roadmap.focus_symbols, call.roadmap.open_questions).ok
  /\ \E d \in estrai_domande_aperte(call.review) :
       call' = [call EXCEPT !.done = TRUE,
                            !.fonti =
                              Fonti(web_search(call.roadmap.focus_symbols,
                                               call.roadmap.open_questions[1]).val,
                                    call.nets),
                            !.symbols =
                              MergedSymbols(call.roadmap,
                                            estrai_simboli_concetti(call.risposta),
                                            estrai_simboli_concetti(call.review)),
                            !.open_questions = WrapAll(d)]
  /\ UNCHANGED << file, orch, gen, launcher, log >>

\* the decimal digits of a natural number
RECURSIVE Decimal(_)
Decimal(n) ==
  IF n < 10 THEN << << "0","1","2","3","4","5","6","7","8","9" >>[n + 1] >>
  ELSE Decimal(n \div 10) \o Decimal(n % 10)

\* the lists of symbols the functions are called with have up to this many
MaxSymbols == 9

\* n symbols, all different: Sym 1, Sym 2, ... (with the space that
\* web_search replaces)
SymbolList(n) == [i \in 1..n |-> JStr(<< "S","y","m"," " >> \o Decimal(i))]

OtherQuestion == << "C","a","n"," ","Q","_","p","l","a","s","m","a"," ","e","x","c","e","e","d"," ","5","?" >>

QuestionLists ==
  { << >>, WrapAll(<< ScenarioQuestion >>),
    WrapAll(<< ScenarioQuestion, OtherQuestion >>) }

PromptCalls ==
  { [fn |-> "prompt", done |-> FALSE, symbols |-> SymbolList(n), questions |-> q,
     out |-> Null] : n \in 0..MaxSymbols, q \in QuestionLists }

\* generate_prompt(symbols, questions) returns
CallPrompt ==
  /\ call.fn = "prompt"
  /\ ~call.done
  /\ call' = [call EXCEPT !.done = TRUE,
                          !.out = generate_prompt(call.symbols, call.questions)]
  /\ UNCHANGED << file, orch, gen, launcher, log >>

\* the second argument: the first open question, or "" when there is none
SearchQuestions == { JStr(<< >>), JStr(ScenarioQuestion), JStr(OtherQuestion) }

SearchCalls ==
  { [fn |-> "search", done |-> FALSE, symbols |-> SymbolList(n), question |-> q,
     out |-> Null] : n \in 0..MaxSymbols, q \in SearchQuestions }

\* web_search(symbols, question) returns
CallSearch ==
  /\ call.fn = "search"
  /\ ~call.done
  /\ call' = [call EXCEPT !.done = TRUE,
                          !.out = web_search(call.symbols, call.question)]
  /\ UNCHANGED << file, orch, gen, launcher, log >>

InitCalls ==
  /\ file = Absent
  /\ orch = OrchInit
  /\ gen = GenInit
  /\ call \in ExtractCalls \cup CycleCalls \cup PromptCalls \cup SearchCalls
  /\ launcher = LauncherOff
  /\ log = NoLog

NextCalls == CallExtract \/ CallCycle \/ CallPrompt \/ CallSearch

\* the functions called one at a time, outside any process
SpecCalls == InitCalls /\ [][NextCalls]_vars

\* whether the text s occurs in the text t
OccursIn(s, t) == \E i \in 1..(Len(t) - Len(s) + 1) : LitAt(t, i, s, FALSE)

\* C17: on every text, the empty one and those that match no pattern
\* included, both extractors return: estrai_domande_aperte has a result, the
\* results are collections of pieces of the text that pass the length
\* filters, and both are empty when the text has no letter to match.
C17_ExtractorsTotal ==
  call.fn = "estrai" =>
    /\ ~call.done => estrai_domande_aperte(call.text) # {}
    /\ call.done =>
         /\ IsFiniteSet(call.concetti)
         /\ \A c \in call.concetti :
              Len(c) > MinConceptLen /\ OccursIn(c, call.text)
         /\ \A i \in 1..Len(call.domande) :
              Len(call.domande[i]) > MinQuestionLen
                /\ OccursIn(call.domande[i], call.text)
         /\ (\A i \in 1..Len(call.text) : call.text[i] \notin Letter)
              => (call.concetti = {} /\ call.domande = << >>)

\* the extractors returned on the empty text
C17_Witness ==
  /\ call.fn = "estrai"
  /\ call.done
  /\ call.text = << >>
  /\ call.concetti = {}
  /\ call.domande = << >>

\* C18: in the end-to-end scenario one cycle leaves the symbols it started
\* with plus exactly Triple_product, and the two questions of the review's
\* labelled block in the order they are listed.
C18_Scenario ==
  (call.fn = "ciclo" /\ call.done) =>
    /\ call.symbols
         = Range(call.roadmap.focus_symbols) \cup { JStr(<< "T","r","i","p","l","e","_","p","r","o","d","u","c","t" >>) }
    /\ call.open_questions
         = WrapAll(<< << "W","h","a","t"," ","l","i","m","i","t","s"," ","T","r","i","p","l","e","_","p","r","o","d","u","c","t","?" >>,
                      << "C","a","n"," ","Q","_","p","l","a","s","m","a"," ","e","x","c","e","e","d"," ","5","?" >> >>)

\* the position at which the text s first occurs in the text t
FirstAt(s, t) ==
  CHOOSE i \in 1..Len(t) : LitAt(t, i, s, FALSE) /\ \A k \in 1..(i - 1) : ~LitAt(t, k, s, FALSE)

\* C19: the prompt asks the first open question when there is one and
\* otherwise asks to elaborate on the first 5 symbols; after that it names as
\* key symbols the first 8 symbols (all of them when there are fewer) and no
\* later one; a second question is not in it.
C19_PromptTargets ==
  (call.fn = "prompt" /\ call.done) =>
    /\ call.out.ok
    /\ LET p      == call.out.val
           n      == Len(call.symbols)
           k      == FirstAt(PromptMid, p)
           target == SubSeq(p, Len(PromptLead) + 1, k - 1)
           vocab  == SubSeq(p, k + Len(PromptMid), Len(p))
       IN  /\ OccursIn(PromptMid, p)
           /\ LitAt(p, 1, PromptLead, FALSE)
           /\ call.questions # << >> => target = call.questions[1].val
           /\ call.questions = << >> =>
                /\ LitAt(target, 1, FallbackLead, FALSE)
                /\ \A i \in 1..n :
                     OccursIn(call.symbols[i].val, target) <=> i <= FallbackSymbols
           /\ \A i \in 1..n :
                OccursIn(call.symbols[i].val, vocab) <=> i <= PromptSymbols
           /\ \A i \in 2..Len(call.questions) :
                ~OccursIn(call.questions[i].val, p)

\* the fallback prompt for more symbols than the prompt names
C19_Witness ==
  /\ call.fn = "prompt"
  /\ call.done
  /\ call.questions = << >>
  /\ Len(call.symbols) > PromptSymbols
  /\ call.out.ok

\* C20: for n symbols web_search returns min(n, 3) reference links, one for
\* each of the first symbols in their order (the symbol after the base, its
\* spaces turned into underscores), and then one search link naming those
\* same symbols and no later one; the second argument changes nothing, and
\* the call touches nothing but its result.
C20_CandidateUrls ==
  /\ [](( call.fn = "search" /\ call.done) =>
          /\ call.out.ok
          /\ LET links == call.out.val
                 n     == Len(call.symbols)
                 m     == Min(n, SearchSymbols)
             IN  /\ Len(links) = m + 1
                 /\ \A i \in 1..m :
                      LET sym == call.symbols[i].val
                      IN  /\ LitAt(links[i], 1, WikiBase, FALSE)
                          /\ Len(links[i]) = Len(WikiBase) + Len(sym)
                          /\ \A c \in 1..Len(sym) :
                               links[i][Len(WikiBase) + c]
                                 = (IF sym[c] = " " THEN "_" ELSE sym[c])
                 /\ LitAt(links[m + 1], 1, ArxivBase, FALSE)
                 /\ LitAt(links[m + 1], Len(links[m + 1]) - Len(ArxivTail) + 1,
                          ArxivTail, FALSE)
                 /\ \A i \in 1..n :
                      OccursIn(call.symbols[i].val, links[m + 1]) <=> i <= m
          /\ \A q \in SearchQuestions : web_search(call.symbols, q) = call.out)
  /\ [][ (call.fn = "search" /\ call' # call)
           => (file' = file /\ orch' = orch /\ gen' = gen
               /\ call'.symbols = call.symbols) ]_vars

\* links were resolved for more symbols than are used
C20_Witness ==
  /\ call.fn = "search"
  /\ call.done
  /\ Len(call.symbols) > SearchSymbols
  /\ Len(call.out.val) = SearchSymbols + 1

(***************************************************************************)
(* Starting the system: the setup script's verify_roadmap                  *)
(* (setup_mia_system.py) and the launcher (start_mia_system.py), which     *)
(* creates the roadmap file, runs the generator once and waits for it, and *)
(* then starts the orchestrator.                                           *)
(***************************************************************************)
\* the roadmap verify_roadmap writes
SetupRoadmap ==
  [metadata |-> [total_symbols |-> 0, last_update |-> Timestamp,
                 version |-> "1.0.0", status |-> "initialized"],
   focus_symbols |-> << >>, open_questions |-> << >>,
   operational_recommendations |-> << >>, peer_reviews |-> << >>,
   web_sources |-> << >>, generation_history |-> << >>]

\* a roadmap an earlier run of the cycle loop left in the file: the initial
\* one after a cycle with the reply RispostaA and the review ReviewTwo
AccumulatedRoadmap ==
  (CHOOSE m \in MergeOutcomes(DefaultRoadmap, ConcettiDi[RispostaA],
                              ConcettiDi[ReviewTwo],
                              CHOOSE d \in DomandeDi[ReviewTwo] : TRUE) : m.ok).val

\* setup_mia_system.py lines 111-128: verify_roadmap, up to open(..., 'w')
\* when the file does not exist
SetupOpen ==
  /\ launcher.pc = "setup"
  /\ IF file.st = "absent"
     THEN /\ file' = Truncated
          /\ launcher' = [launcher EXCEPT !.pc = "setup_writing"]
     ELSE /\ file' = file
          /\ launcher' = [launcher EXCEPT !.pc = "start"]
  /\ UNCHANGED << orch, gen, call, log >>

\* setup_mia_system.py line 129: json.dump and the end of the with block
SetupClose ==
  /\ launcher.pc = "setup_writing"
  /\ file' \in CloseOutcomes(file, SetupRoadmap)
  /\ launcher' = [launcher EXCEPT !.pc = "start"]
  /\ UNCHANGED << orch, gen, call, log >>

\* create_initial_roadmap that opens the file whether it exists or not
LaunchOpenAlways ==
  /\ launcher.pc = "start"
  /\ file' = Truncated
  /\ launcher' = [launcher EXCEPT !.pc = "creating"]
  /\ UNCHANGED << orch, gen, call, log >>

\* start_mia_system.py lines 56-75: create_initial_roadmap, up to
\* open(..., 'w') when the file does not exist
LaunchOpen ==
  /\ launcher.pc = "start"
  /\ IF file.st = "absent"
     THEN /\ file' = Truncated
          /\ launcher' = [launcher EXCEPT !.pc = "creating"]
     ELSE /\ file' = file
          /\ launcher' = [launcher EXCEPT !.pc = "initial_cycle"]
  /\ UNCHANGED << orch, gen, call, log >>

\* start_mia_system.py line 76: json.dump and the end of the with block
LaunchClose ==
  /\ launcher.pc = "creating"
  /\ file' \in CloseOutcomes(file, DefaultRoadmap)
  /\ launcher' = [launcher EXCEPT !.pc = "initial_cycle"]
  /\ UNCHANGED << orch, gen, call, log >>

\* the generator has exited
GenExited == gen.runs >= 1 /\ gen.pc \in { "idle", "crashed" }

\* start_mia_system.py lines 135-137: the generator as the subprocess of
\* run_initial_cycle; it runs update_roadmap once, from its start until it
\* exits or is killed
LaunchGen ==
  /\ launcher.pc \in { "initial_cycle", "starting", "running" }
  /\ gen.runs = 0 \/ gen.pc \in { "loaded", "writing" }
  /\ GenStep

\* run_initial_cycle that starts the generator and does not wait for it
\* (Popen instead of subprocess.run)
LaunchNoWait ==
  /\ launcher.pc = "initial_cycle"
  /\ launcher' = [launcher EXCEPT !.pc = "starting"]
  /\ UNCHANGED << file, orch, gen, call, log >>

\* start_mia_system.py lines 135-144: subprocess.run returns once the
\* generator has exited, whatever its return code
LaunchWaited ==
  /\ launcher.pc = "initial_cycle"
  /\ GenExited
  /\ launcher' = [launcher EXCEPT !.pc = "starting"]
  /\ UNCHANGED << file, orch, gen, call, log >>

\* start_mia_system.py lines 137 and 146-148: after timeout=120 seconds
\* subprocess.run kills the generator, waits for it and raises
\* TimeoutExpired, which run_initial_cycle catches.  A generator killed
\* while saving leaves the file empty or cut off.
LaunchTimeout ==
  /\ launcher.pc = "initial_cycle"
  /\ ~GenExited
  /\ gen' = [gen EXCEPT !.pc = "killed"]
  /\ file' \in (IF gen.pc = "writing" THEN { file, Torn } ELSE { file })
  /\ launcher' = [launcher EXCEPT !.pc = "starting"]
  /\ UNCHANGED << orch, call, log >>

\* start_mia_system.py lines 80-102 and 206: start_orchestrator starts the
\* orchestrator process, once
LaunchStart ==
  /\ launcher.pc = "starting"
  /\ launcher' = [launcher EXCEPT !.pc = "running"]
  /\ UNCHANGED << file, orch, gen, call, log >>

\* the orchestrator process the launcher started: the one process that
\* drives the cycle loop
LaunchOrch ==
  /\ launcher.pc = "running"
  /\ OrchStep

\* the system is set up (or not) and then launched, onto no file, the
\* initial roadmap, one an earlier run left, or bytes that do not parse
InitLaunch ==
  /\ file \in { Absent, Dumped(DefaultRoadmap), Dumped(AccumulatedRoadmap), Torn }
  /\ orch = OrchInit
  /\ gen = GenInit
  /\ call = NoCall
  /\ launcher \in { [pc |-> "setup"], [pc |-> "start"] }
  /\ log = NoLog

NextLaunch ==
  \/ SetupOpen \/ SetupClose \/ LaunchOpen \/ LaunchClose \/ LaunchGen
  \/ LaunchWaited \/ LaunchTimeout \/ LaunchStart \/ LaunchOrch

SpecLaunch == InitLaunch /\ [][NextLaunch]_vars

(***************************************************************************)
(* Properties of the system as the launcher starts it.                     *)
(***************************************************************************)
\* the processes that have the roadmap file open for writing
Writers ==
  (IF launcher.pc \in { "setup_writing", "creating" } THEN { "launcher" } ELSE {})
    \cup (IF gen.pc = "writing" THEN { "generator" } ELSE {})
    \cup (IF orch.pc = "writing" THEN { "orchestrator" } ELSE {})

RECURSIVE ConcettiOf(_)
ConcettiOf(texts) ==
  IF texts = << >> THEN {}
  ELSE estrai_simboli_concetti(texts[1]) \cup ConcettiOf(Tail(texts))

\* C22: the symbols a completed cycle leaves are those it started with
\* together with the concepts of the generation reply, of every text fetched
\* and of the review, no more and no fewer.
C22_SymbolsAreUnionOfMined ==
  (call.fn = "ciclo" /\ call.done) =>
    call.symbols
      = Range(call.roadmap.focus_symbols)
          \cup { JStr(s) : s \in estrai_simboli_concetti(call.risposta)
                                   \cup ConcettiOf(call.fonti)
                                   \cup estrai_simboli_concetti(call.review) }

\* C23: every concept returned is longer than 2 characters once trimmed and
\* every question longer than 10; no question is returned twice and no two
\* concepts or questions returned differ only in surrounding whitespace.
C23_TrimmedLongDistinct ==
  (call.fn = "estrai" /\ call.done) =>
    /\ \A s \in call.concetti : Len(Strip(s)) > MinConceptLen
    /\ \A s, t \in call.concetti : Strip(s) = Strip(t) => s = t
    /\ \A i \in 1..Len(call.domande) : Len(Strip(call.domande[i])) > MinQuestionLen
    /\ \A i, j \in 1..Len(call.domande) :
         Strip(call.domande[i]) = Strip(call.domande[j]) => i = j

\* C24: in a cycle the i-th fetch is of the i-th resolved link, so the links
\* are fetched in resolution order, each once, a failed one not again; a
\* step of the fetch loop makes one fetch; and each fetch after the first
\* starts at least PacingDelay seconds after the one before it.
C24_FetchesPaced ==
  /\ [](orch.pc = "fetching" =>
          /\ Len(orch.loc.fetched) = Len(orch.loc.fonti)
          /\ Len(orch.loc.fetched) <= Len(orch.loc.links)
          /\ \A i \in 1..Len(orch.loc.fetched) :
               orch.loc.fetched[i].url = orch.loc.links[i]
          /\ \A i \in 1..(Len(orch.loc.fetched) - 1) :
               orch.loc.fetched[i + 1].at - orch.loc.fetched[i].at >= PacingDelay)
  /\ [][ (orch.pc = "fetching" /\ orch'.pc = "fetching" /\ orch' # orch)
           => /\ Len(orch'.loc.fetched) = Len(orch.loc.fetched) + 1
              /\ SubSeq(orch'.loc.fetched, 1, Len(orch.loc.fetched))
                   = orch.loc.fetched ]_vars

\* every one of three links was fetched, the second fetch failed and the
\* third was made all the same
C24_Witness ==
  /\ orch.pc = "fetching"
  /\ Len(orch.loc.links) >= 3
  /\ Len(orch.loc.fetched) = Len(orch.loc.links)
  /\ LitAt(orch.loc.fonti[2], 1, ErrLead, FALSE)
  /\ ~LitAt(orch.loc.fonti[3], 1, ErrLead, FALSE)

\* the requests.post calls made once c cycles are complete
PostsAfter(c) == 2 * c

\* C25: a call of ask_ollama makes one request, whatever the reply; a cycle
\* makes its generation request and then its review request, two in all
\* when it completes; and after a request that failed no further request is
\* made, in that cycle or in a later one.
C25_OneRequestPerCall ==
  /\ [](orch.pc \in { "loop", "generating" } => orch.posts = PostsAfter(orch.ciclo))
  /\ [](orch.pc \in { "fetching", "reviewing" }
          => orch.posts = PostsAfter(orch.ciclo) + 1)
  /\ [](orch.pc \in { "merging", "merged", "writing", "saved" }
          => orch.posts = PostsAfter(orch.ciclo + 1))
  /\ [](orch.pc = "done"
          => orch.posts = PostsAfter(IF orch.ciclo = CYCLES THEN CYCLES
                                     ELSE orch.ciclo + 1))
  /\ [][ /\ orch'.posts \in { orch.posts, orch.posts + 1 }
         /\ (orch.pc \in { "generating", "reviewing" } /\ orch' # orch)
               => orch'.posts = orch.posts + 1
         /\ (orch'.loc.reply # NoReply /\ ~ask_ollama(orch'.loc.reply).ok)
               => orch'.pc = "crashed"
         /\ orch.pc = "crashed" => orch' = orch ]_vars

\* the review request of the second cycle failed: three requests had
\* succeeded, the fourth was made once
C25_Witness ==
  /\ orch.pc = "crashed"
  /\ orch.ciclo = 1
  /\ orch.loc.simboli_risposta # {}
  /\ orch.loc.reply = ServiceDown
  /\ orch.posts = PostsAfter(orch.ciclo + 1)

\* the prompt asks the question q / is the fallback that elaborates on symbols
Asks(prompt, q) == LitAt(prompt, 1, PromptLead \o q \o PromptMid, FALSE)

IsFallback(prompt) == LitAt(prompt, 1, PromptLead \o FallbackLead, FALSE)

\* C26: the questions a cycle's merge leaves are those extracted from its
\* review, the roadmap is not touched between that merge and the next
\* cycle's prompt, and the prompt of every cycle after the first asks the
\* first of them; the fallback prompt is built in the first cycle only.
C26_LaterPromptsAskLastReview ==
  /\ [][ /\ (orch.pc = "merging" /\ orch'.pc = "merged")
              => /\ orch.loc.domande_aperte \in DomandeDi[orch.loc.review]
                 /\ orch'.roadmap.open_questions = WrapAll(orch.loc.domande_aperte)
         /\ (orch.pc \in { "merged", "writing", "saved", "loop" })
              => orch'.roadmap = orch.roadmap ]_vars
  /\ []((orch.pc = "generating" /\ orch.ciclo >= 1) =>
          /\ orch.roadmap.open_questions # << >>
          /\ Asks(orch.loc.prompt, orch.roadmap.open_questions[1].val)
          /\ ~IsFallback(orch.loc.prompt))
  /\ [](IsFallback(orch.loc.prompt) => orch.ciclo = 0)

\* the second cycle has built its prompt: it asks a question of the first
\* cycle's review, which left two
C26_Witness ==
  /\ orch.pc = "generating"
  /\ orch.ciclo = 1
  /\ Len(orch.roadmap.open_questions) = 2
  /\ Asks(orch.loc.prompt, orch.roadmap.open_questions[1].val)

CycleKeys == { "focus_symbols", "open_questions" }

\* the roadmaps r and q have the same keys and differ at most under CycleKeys
SameButCycleKeys(r, q) ==
  /\ DOMAIN r = DOMAIN q
  /\ \A k \in DOMAIN r \ CycleKeys : r[k] = q[k]

\* C28: the orchestrator holds the roadmap as the file gave it, no step of a
\* cycle adds, drops or changes a key other than focus_symbols and
\* open_questions, and the save leaves in the file, under every other key,
\* the value held; so those keys go back to the file as they were loaded.
C28_OtherKeysWrittenBack ==
  [][ /\ (orch.pc = "start" /\ orch'.pc = "loop" /\ file.st = "json")
           => orch'.roadmap = json_load(file.data)
      /\ (orch.roadmap # Null /\ orch'.roadmap # Null)
           => SameButCycleKeys(orch.roadmap, orch'.roadmap)
      /\ (orch.pc = "writing" /\ orch'.pc = "saved")
           => /\ file'.st = "json"
              /\ SameButCycleKeys(json_load(file'.data), orch.roadmap) ]_vars

\* a cycle was saved that changed the symbols and the questions of a roadmap
\* loaded with metadata: the file holds the metadata as loaded, its counters
\* those of the loaded roadmap
C28_Witness ==
  /\ orch.pc = "saved"
  /\ file.st = "json"
  /\ "metadata" \in DOMAIN orch.roadmap
  /\ orch.roadmap.focus_symbols # << >>
  /\ orch.roadmap.open_questions # << >>
  /\ json_load(file.data).metadata = DefaultRoadmap.metadata
  /\ json_load(file.data).peer_reviews = DefaultRoadmap.peer_reviews

\* the positions of the setup script and of the launcher in their roadmap
\* initialisation: before it, and inside its with block
Initialising == { "setup", "start" }

Creating == { "setup_writing", "creating" }

\* C29: verify_roadmap and create_initial_roadmap open the roadmap file for
\* writing only when it does not exist and leave a file that exists, parsable
\* or not, exactly as it is; the only file they write is the one they have
\* just created, into which they put their initial roadmap.
C29_InitialisationKeepsFile ==
  /\ [](launcher.pc \in Creating => file = Truncated)
  /\ [][ /\ (launcher.pc \in Initialising /\ launcher' # launcher)
              => IF file.st = "absent"
                 THEN file' = Truncated /\ launcher'.pc \in Creating
                 ELSE file' = file /\ launcher'.pc \notin Creating
         /\ (launcher.pc = "setup_writing" /\ launcher' # launcher)
              => file' = Dumped(SetupRoadmap)
         /\ (launcher.pc = "creating" /\ launcher' # launcher)
              => file' = Dumped(DefaultRoadmap) ]_vars

\* the system was launched onto the roadmap an earlier run had
\* left: the initialisation is over, the generator not yet started, and the
\* file still holds that roadmap
C29_Witness ==
  /\ launcher.pc = "initial_cycle"
  /\ gen = GenInit
  /\ file = Dumped(AccumulatedRoadmap)

(***************************************************************************)
(* The MIAL execution log (mial_dashboard_extension.py): log_execution     *)
(* reads mial_execution_log.json, appends the execution and writes the     *)
(* file back.  log.now counts the executions so far and stands for the     *)
(* clock: the k-th execution has timestamp k.                              *)
(***************************************************************************)
\* "Keep only last 50 executions"
LogLimit == 50

MaxLogCalls == 53

LogAbsent == [st |-> "absent", data |-> Null, now |-> 0]

\* a log file that does not parse (what an interrupted write leaves)
LogTorn == [st |-> "torn", data |-> Null, now |-> 0]

\* the code executed and what it printed
CodeSample == "let x = 1"

OutputSample == "1"

\* lines 213-218: the entry of the execution made at time t
LogEntry(t, code, output, errors) ==
  [kind |-> "dict", timestamp |-> t, code |-> code, output |-> output,
   errors |-> errors]

\* json.dump(logs, f, indent=2) of a list of entries
DumpLog(logs) ==
  [j |-> "array", items |-> [i \in 1..Len(logs) |-> DumpItem(logs[i])]]

\* json.load(f) of a log document
LoadLog(doc) == [i \in 1..Len(doc.items) |-> LoadItem(doc.items[i])]

\* logs[-n:]
LastN(logs, n) ==
  IF Len(logs) <= n THEN logs ELSE SubSeq(logs, Len(logs) - n + 1, Len(logs))

\* log_execution that cuts the list with logs[:50]
log_execution_oldest ==
  /\ log.st # "unused"
  /\ log.now < MaxLogCalls
  /\ LET t == log.now + 1
     IN  IF log.st = "torn"
         THEN log' = [log EXCEPT !.now = t]
         ELSE LET logs  == IF log.st = "absent" THEN << >> ELSE LoadLog(log.data)
                  more  == Append(logs, LogEntry(t, CodeSample, OutputSample, ""))
                  kept  == IF Len(more) > LogLimit THEN SubSeq(more, 1, LogLimit)
                           ELSE more
              IN  log' = [st |-> "json", data |-> DumpLog(kept), now |-> t]
  /\ UNCHANGED << file, orch, gen, call, launcher >>

\* lines 209-236: log_execution(code, output, errors).  On a file that does
\* not parse json.load raises, the except branch shows the error and the
\* file is left as it is
log_execution ==
  /\ log.st # "unused"
  /\ log.now < MaxLogCalls
  /\ LET t == log.now + 1
     IN  IF log.st = "torn"
         THEN log' = [log EXCEPT !.now = t]
         ELSE LET logs  == IF log.st = "absent" THEN << >> ELSE LoadLog(log.data)
                  more  == Append(logs, LogEntry(t, CodeSample, OutputSample, ""))
                  kept  == IF Len(more) > LogLimit THEN LastN(more, LogLimit)
                           ELSE more
              IN  log' = [st |-> "json", data |-> DumpLog(kept), now |-> t]
  /\ UNCHANGED << file, orch, gen, call, launcher >>

InitLog ==
  /\ file = Absent
  /\ orch = OrchInit
  /\ gen = GenInit
  /\ call = NoCall
  /\ launcher = LauncherOff
  /\ log \in { LogAbsent, LogTorn }

\* executions logged one after the other
SpecLog == InitLog /\ [][log_execution]_vars

\* C30: the log file, whenever it holds a log, holds at most LogLimit
\* entries: those of the latest executions, as many as were made up to
\* LogLimit, the oldest first and none missing in between; so the entries
\* dropped are the oldest.
C30_LastFiftyInOrder ==
  log.st = "json" =>
    LET logs == LoadLog(log.data)
    IN  /\ Len(logs) <= LogLimit
        /\ Len(logs) = Min(log.now, LogLimit)
        /\ \A i \in 1..Len(logs) :
             logs[i] = LogEntry(log.now - Len(logs) + i, CodeSample, OutputSample, "")

\* two executions more than the log keeps were logged: the first two are gone
C30_Witness ==
  /\ log.st = "json"
  /\ log.now = LogLimit + 2
  /\ Len(LoadLog(log.data)) = LogLimit
  /\ LoadLog(log.data)[1].timestamp = 3

====
